---- MODULE Spec2Model ----
(***************************************************************************)
(* A model of the toFormatCase directive (FormatCaseInputDirective) and    *)
(* of its HistoryManager.                                                  *)
(*                                                                         *)
(* Texts are sequences of one-character strings.  A JavaScript value that  *)
(* may be null or undefined is a record [t, ...] whose field t names its   *)
(* type.  A thrown exception is the value of the flag "thrown" in the      *)
(* result of the operator that models the throwing function.               *)
(***************************************************************************)
EXTENDS Integers, Sequences, FiniteSets, TLC

VARIABLES
    historyZ,          \* HistoryManager.historyZ: the values of the undo mementos
    historyY,          \* HistoryManager.historyY: the values of the redo mementos
    formatCaseValue,   \* the active rule sequence
    ignoredCharacters, \* @Input ignoredCharacters
    customRegex,       \* @Input customRegex (a pattern name, NoRegex for null)
    onlyNumberParams,  \* _onlyNumberParams
    lastValid,         \* lastValidValueWithCustomRegex
    activeBlur,
    activeFocus,
    lastValue,
    elValue,           \* el.nativeElement.value
    elType,            \* el.nativeElement.type
    selStart,          \* el.nativeElement.selectionStart
    selEnd,            \* el.nativeElement.selectionEnd
    disabled,          \* el.nativeElement.disabled
    formValue,         \* the last argument given to onChange
    touched,           \* onTouched has been called
    pasteEmitted,      \* the text of the last event emitted on pasteContent
    lastOp,            \* observer: the handler that ran last, with its outcome
    hlog               \* observer: the calls made on a bare HistoryManager

vars == <<historyZ, historyY, formatCaseValue, ignoredCharacters, customRegex,
          onlyNumberParams, lastValid, activeBlur, activeFocus, lastValue,
          elValue, elType, selStart, selEnd, disabled, formValue, touched,
          pasteEmitted, lastOp, hlog>>

historyVars == <<historyZ, historyY>>
configVars == <<formatCaseValue, ignoredCharacters, customRegex, onlyNumberParams>>
focusVars == <<activeBlur, activeFocus>>
selVars == <<selStart, selEnd>>

----------------------------------------------------------------------------
(* Bounds of the model *)

\* the longest text typed or pasted
MaxLen == 3
\* the largest number of mementos a history holds
MaxHist == 4
\* the largest number of entries of a textual rule sequence
MaxEntries == 2
\* the largest number of calls made on a bare HistoryManager
MaxCalls == 8
\* the longest ignoredCharacters text drawn
MaxIgnored == 2

----------------------------------------------------------------------------
(* JavaScript values *)

Undefined == [t |-> "undefined"]
Null == [t |-> "null"]
Num(n) == [t |-> "number", n |-> n]
Str(s) == [t |-> "string", s |-> s]

Min(a, b) == IF a < b THEN a ELSE b
Max(a, b) == IF a > b THEN a ELSE b

RECURSIVE Pow10(_)
Pow10(n) == IF n = 0 THEN 1 ELSE 10 * Pow10(n - 1)

\* all texts of at most n characters of the set S
Texts(S, n) == UNION {[1..k -> S] : k \in 0..n}

----------------------------------------------------------------------------
(* Characters *)

LowerSeq == <<"a","b","c","d","e","f","g","h","i","j","k","l","m",
              "n","o","p","q","r","s","t","u","v","w","x","y","z">>
UpperSeq == <<"A","B","C","D","E","F","G","H","I","J","K","L","M",
              "N","O","P","Q","R","S","T","U","V","W","X","Y","Z">>
DigitSeq == <<"0","1","2","3","4","5","6","7","8","9">>
\* the accented letters of the model, lower case and upper case
AccentLowerSeq == <<"é", "ñ">>
AccentUpperSeq == <<"É", "Ñ">>
\* their NFD base letters
AccentBaseLower == <<"e", "n">>
AccentBaseUpper == <<"E", "N">>

Range(s) == {s[i] : i \in 1..Len(s)}
IndexOf(c, s) == CHOOSE i \in 1..Len(s) : s[i] = c

IsLower(c) == c \in Range(LowerSeq)
IsUpper(c) == c \in Range(UpperSeq)
IsDigit(c) == c \in Range(DigitSeq)
IsAsciiAlnum(c) == IsLower(c) \/ IsUpper(c) \/ IsDigit(c)
IsAccent(c) == c \in Range(AccentLowerSeq) \cup Range(AccentUpperSeq)
IsSpace(c) == c = " "

DigitValue(c) == IndexOf(c, DigitSeq) - 1

toUpperChar(c) ==
    IF IsLower(c) THEN UpperSeq[IndexOf(c, LowerSeq)]
    ELSE IF c \in Range(AccentLowerSeq) THEN AccentUpperSeq[IndexOf(c, AccentLowerSeq)]
    ELSE c

toLowerChar(c) ==
    IF IsUpper(c) THEN LowerSeq[IndexOf(c, UpperSeq)]
    ELSE IF c \in Range(AccentUpperSeq) THEN AccentLowerSeq[IndexOf(c, AccentUpperSeq)]
    ELSE c

toUpperCase(text) == [i \in 1..Len(text) |-> toUpperChar(text[i])]
toLowerCase(text) == [i \in 1..Len(text) |-> toLowerChar(text[i])]

\* String.prototype.trim
RECURSIVE trimStart(_)
trimStart(text) ==
    IF text # <<>> /\ IsSpace(Head(text)) THEN trimStart(Tail(text)) ELSE text

RECURSIVE trimEnd(_)
trimEnd(text) ==
    IF text # <<>> /\ IsSpace(text[Len(text)])
    THEN trimEnd(SubSeq(text, 1, Len(text) - 1))
    ELSE text

trim(text) == trimEnd(trimStart(text))

endsWith(text, c) == text # <<>> /\ text[Len(text)] = c
startsWith(text, c) == text # <<>> /\ text[1] = c

\* String.prototype.slice(from, to) with 0 <= from
slice(text, from, to) == SubSeq(text, from + 1, Min(to, Len(text)))

\* text.replace(/[class]+/g, rep): every maximal run of characters of the
\* class becomes the text rep
RECURSIVE replaceRuns(_, _, _)
replaceRuns(text, InClass(_), rep) ==
    IF text = <<>> THEN <<>>
    ELSE IF InClass(Head(text))
         THEN IF Len(text) > 1 /\ InClass(text[2])
              THEN replaceRuns(Tail(text), InClass, rep)
              ELSE rep \o replaceRuns(Tail(text), InClass, rep)
         ELSE <<Head(text)>> \o replaceRuns(Tail(text), InClass, rep)

\* text.replace(/[class]/g, "")
removeChars(text, InClass(_)) == SelectSeq(text, LAMBDA c : ~InClass(c))

\* String.prototype.split(sep) for a one-character separator: the pieces
\* between the separators, an empty text giving the single piece ""
RECURSIVE splitAt(_, _, _)
splitAt(text, sep, cur) ==
    IF text = <<>> THEN <<cur>>
    ELSE IF Head(text) = sep
         THEN <<cur>> \o splitAt(Tail(text), sep, <<>>)
         ELSE splitAt(Tail(text), sep, Append(cur, Head(text)))

split(text, sep) == splitAt(text, sep, <<>>)

\* String.prototype.includes for a text
includes(text, part) ==
    \E i \in 1..(Len(text) - Len(part) + 1) :
        SubSeq(text, i, i + Len(part) - 1) = part

----------------------------------------------------------------------------
(* Rules: the text-to-text functions of the directive *)

\* text.normalize('NFD') followed by the removal of the combining marks
removeDiacriticsChar(c) ==
    IF c \in Range(AccentLowerSeq) THEN AccentBaseLower[IndexOf(c, AccentLowerSeq)]
    ELSE IF c \in Range(AccentUpperSeq) THEN AccentBaseUpper[IndexOf(c, AccentUpperSeq)]
    ELSE c

removeDiacritics(text) == [i \in 1..Len(text) |-> removeDiacriticsChar(text[i])]

NotAsciiAlnum(c) == ~IsAsciiAlnum(c)
IsUnderscore(c) == c = "_"
IsSpaceOrUnderscore(c) == IsSpace(c) \/ c = "_"

RECURSIVE stripLeading(_, _)
stripLeading(InClass(_), text) ==
    IF text # <<>> /\ InClass(Head(text)) THEN stripLeading(InClass, Tail(text))
    ELSE text

RECURSIVE stripTrailing(_, _)
stripTrailing(InClass(_), text) ==
    IF text # <<>> /\ InClass(text[Len(text)])
    THEN stripTrailing(InClass, SubSeq(text, 1, Len(text) - 1))
    ELSE text

\* one word of toCamelCase / toPascalCase after the first
capitalizeLowerTail(word) ==
    IF word = <<>> THEN <<>>
    ELSE <<toUpperChar(word[1])>> \o toLowerCase(Tail(word))

\* the first word in lower case throughout
camelFirstWord_lowered(word) == toLowerCase(word)

\* the first word of toCamelCase: its tail is kept as it is
camelFirstWord(word) ==
    IF word = <<>> THEN <<>> ELSE <<toLowerChar(word[1])>> \o Tail(word)

\* the first word capitalised like the others
pascalFirstWord_lowered(word) ==
    IF word = <<>> THEN <<>> ELSE <<toUpperChar(word[1])>> \o toLowerCase(Tail(word))

\* the first word of toPascalCase: its tail is kept as it is
pascalFirstWord(word) ==
    IF word = <<>> THEN <<>> ELSE <<toUpperChar(word[1])>> \o Tail(word)

RECURSIVE concatWords(_, _, _)
concatWords(First(_), words, i) ==
    IF i > Len(words) THEN <<>>
    ELSE (IF i = 1 THEN First(words[i]) ELSE capitalizeLowerTail(words[i]))
         \o concatWords(First, words, i + 1)

\* newWord.trim().split(/\s+/) where newWord holds no run of two spaces
caseWords(text) == split(trim(replaceRuns(text, NotAsciiAlnum, <<" ">>)), " ")

toCamelCase(text) ==
    LET camelCaseText == concatWords(camelFirstWord, caseWords(text), 1)
    IN  IF endsWith(text, " ") THEN trim(camelCaseText) \o <<" ">> ELSE camelCaseText

toPascalCase(text) ==
    LET PascalCaseText == concatWords(pascalFirstWord, caseWords(text), 1)
    IN  IF endsWith(text, " ") THEN trim(PascalCaseText) \o <<" ">> ELSE PascalCaseText

\* a toSnakeCase that trims whatever the focus flags are
toSnakeCase_trimmed(text) ==
    LET t1 == trim(text) \o (IF Len(text) > 1 /\ endsWith(text, " ") THEN <<" ">> ELSE <<>>)
        t2 == replaceRuns(t1, NotAsciiAlnum, <<"_">>)
        t3 == stripTrailing(IsUnderscore, stripLeading(IsUnderscore, t2))
    IN  replaceRuns(toLowerCase(t3), IsSpaceOrUnderscore, <<"_">>)

\* toSnakeCase reads the focus flags of the directive
toSnakeCase(text) ==
    LET t1 == trim(text) \o (IF Len(text) > 1 /\ endsWith(text, " ") THEN <<" ">> ELSE <<>>)
        t2 == replaceRuns(t1, NotAsciiAlnum, <<"_">>)
        t3 == IF activeBlur \/ ~activeFocus
              THEN stripTrailing(IsUnderscore, stripLeading(IsUnderscore, t2))
              ELSE t2
    IN  replaceRuns(toLowerCase(t3), IsSpaceOrUnderscore, <<"_">>)

toKebabCase(text) ==
    [i \in 1..Len(toSnakeCase(text)) |->
        IF toSnakeCase(text)[i] = "_" THEN "-" ELSE toSnakeCase(text)[i]]

\* only the first space removed
toNoSpaces_first(text) ==
    IF \E i \in 1..Len(text) : IsSpace(text[i])
    THEN slice(text, 0, (CHOOSE i \in 1..Len(text) :
                            IsSpace(text[i]) /\ \A j \in 1..(i - 1) : ~IsSpace(text[j])) - 1)
         \o slice(text, CHOOSE i \in 1..Len(text) :
                            IsSpace(text[i]) /\ \A j \in 1..(i - 1) : ~IsSpace(text[j]),
                   Len(text))
    ELSE text

toNoSpaces(text) == removeChars(text, IsSpace)

IsLetter(c) == IsLower(c) \/ IsUpper(c) \/ IsAccent(c)
NotLetter(c) == ~IsLetter(c)
NotLetterOrSpace(c) == ~(IsLetter(c) \/ IsSpace(c))
NotAlphanumeric(c) == ~(IsLetter(c) \/ IsDigit(c) \/ IsSpace(c))

toOnlyLetters(text) == removeChars(text, NotLetter)
toOnlyLettersAndSpaces(text) == removeChars(text, NotLetterOrSpace)
toAlphanumeric(text) == removeChars(text, NotAlphanumeric)

----------------------------------------------------------------------------
(* FormatCaseTypeAlias: the rule kinds, as the texts the setter compares *)

Default == <<"d","e","f","a","u","l","t">>
Upper == <<"u","p","p","e","r">>
Lower == <<"l","o","w","e","r">>
Camel == <<"c","a","m","e","l">>
Pascal == <<"p","a","s","c","a","l">>
Snake == <<"s","n","a","k","e">>
NoSpaces == <<"n","o","s","p","a","c","e","s">>
Alphanumeric == <<"a","l","p","h","a","n","u","m","e","r","i","c">>
OnlyLetters == <<"o","n","l","y","l","e","t","t","e","r","s">>
OnlyLettersAndSpaces == <<"o","n","l","y","l","e","t","t","e","r","s","a","n","d","s","p","a","c","e","s">>
Kebab == <<"k","e","b","a","b">>
OnlyNumbers == <<"o","n","l","y","n","u","m","b","e","r","s">>
CustomRegex == <<"c","u","s","t","o","m","r","e","g","e","x">>

FormatCaseTypeAlias ==
    {Default, Upper, Lower, Camel, Pascal, Snake, NoSpaces, Alphanumeric,
     OnlyLetters, OnlyLettersAndSpaces, Kebab, OnlyNumbers, CustomRegex}

----------------------------------------------------------------------------
(* Numbers: a number is an integer count of 1/FracScale, or NaN *)

\* the decimal digits a number keeps: no text drawn has more
FracDigits == 4
FracScale == Pow10(FracDigits)

NaN == [nan |-> TRUE, v |-> 0]
Number(v) == [nan |-> FALSE, v |-> v]

RECURSIVE takeDigits(_)
takeDigits(text) ==
    IF text # <<>> /\ IsDigit(Head(text))
    THEN <<Head(text)>> \o takeDigits(Tail(text))
    ELSE <<>>

RECURSIVE digitsValue(_)
digitsValue(ds) ==
    IF ds = <<>> THEN 0
    ELSE 10 * digitsValue(SubSeq(ds, 1, Len(ds) - 1)) + DigitValue(ds[Len(ds)])

\* parseFloat on a text: the longest prefix  -? digits* (. digits*)?  with a digit
unsignedPart(text) == IF startsWith(text, "-") THEN Tail(text) ELSE text
integerDigits(text) == takeDigits(unsignedPart(text))
afterInteger(text) ==
    SubSeq(unsignedPart(text), Len(integerDigits(text)) + 1, Len(unsignedPart(text)))
fractionDigits(text) ==
    IF startsWith(afterInteger(text), ".") THEN takeDigits(Tail(afterInteger(text)))
    ELSE <<>>
magnitude(int, frac) ==
    digitsValue(int) * FracScale + digitsValue(frac) * Pow10(FracDigits - Len(frac))

parseFloat(text) ==
    IF integerDigits(text) = <<>> /\ fractionDigits(text) = <<>> THEN NaN
    ELSE IF startsWith(text, "-")
         THEN Number(0 - magnitude(integerDigits(text), fractionDigits(text)))
         ELSE Number(magnitude(integerDigits(text), fractionDigits(text)))

RECURSIVE natToText(_)
natToText(n) ==
    IF n < 10 THEN <<DigitSeq[n + 1]>>
    ELSE natToText(n \div 10) \o <<DigitSeq[(n % 10) + 1]>>

\* the numeral of an integer: Number.prototype.toString and `${n}`
intToText(n) == IF n < 0 THEN <<"-">> \o natToText(0 - n) ELSE natToText(n)

RECURSIVE fracToText(_, _)
fracToText(f, width) ==
    IF f = 0 THEN <<>>
    ELSE <<DigitSeq[(f \div Pow10(width - 1)) + 1]>>
         \o fracToText(f % Pow10(width - 1), width - 1)

\* Number.prototype.toString of a parsed number
absValue(v) == IF v < 0 THEN 0 - v ELSE v

numberToString(x) ==
    IF x.nan THEN <<"N", "a", "N">>
    ELSE (IF x.v < 0 THEN <<"-">> ELSE <<>>)
         \o natToText(absValue(x.v) \div FracScale)
         \o (IF absValue(x.v) % FracScale = 0 THEN <<>>
             ELSE <<".">> \o fracToText(absValue(x.v) % FracScale, FracDigits))

----------------------------------------------------------------------------
(* Results of the functions that may throw *)

Ok(text) == [thrown |-> FALSE, text |-> text]
Throws == [thrown |-> TRUE, text |-> <<>>]

IsNumericChar(c) == IsDigit(c) \/ c \in {".", ",", "-"}
NotNumericChar(c) == ~IsNumericChar(c)
NotDigitOrMinus(c) == ~(IsDigit(c) \/ c = "-")
IsMinus(c) == c = "-"

adjustForNegativeZero(firstChar, minValue) ==
    IF firstChar = <<"-">> /\ minValue.n = 0 THEN <<"0">>
    ELSE (IF firstChar = <<"-">> THEN <<"-">> ELSE <<>>) \o intToText(minValue.n)

\* lines 1005-1014 of toOnlyNumbers: the numeral returned for a number in range
finalResult(result, limitedDecimalPart, parsedResult) ==
    IF endsWith(result, ".") THEN numberToString(parsedResult) \o <<".">>
    ELSE IF ~includes(numberToString(parsedResult), <<".">>) /\ limitedDecimalPart # <<>>
         THEN numberToString(parsedResult) \o <<".">> \o limitedDecimalPart
         ELSE numberToString(parsedResult)

\* the clamping without the guard for maxValue < minValue
clampParsed_unguarded(result, limitedDecimalPart, parsedResult, minValue, maxValue) ==
    IF minValue.t = "undefined" \/ maxValue.t = "undefined" THEN Throws
    ELSE IF minValue.t # "null" /\ parsedResult.nan
         THEN Ok(adjustForNegativeZero(slice(result, 0, 1), minValue))
    ELSE IF minValue.t # "null" /\ ~parsedResult.nan
            /\ parsedResult.v < minValue.n * FracScale
         THEN Ok(intToText(minValue.n))
    ELSE IF maxValue.t # "null" /\ ~parsedResult.nan
            /\ parsedResult.v > maxValue.n * FracScale
         THEN Ok(intToText(maxValue.n))
    ELSE Ok(finalResult(result, limitedDecimalPart, parsedResult))

\* lines 977-1004 of toOnlyNumbers: the clamping.
\* minValue.toString() and maxValue.toString() throw a TypeError on undefined.
clampParsed(result, limitedDecimalPart, parsedResult, minValue, maxValue) ==
    IF minValue.t = "undefined" \/ maxValue.t = "undefined" THEN Throws
    ELSE IF minValue.t # "null" /\ parsedResult.nan
         THEN Ok(adjustForNegativeZero(slice(result, 0, 1), minValue))
    ELSE IF minValue.t # "null" /\ ~parsedResult.nan
            /\ parsedResult.v < minValue.n * FracScale
         THEN IF maxValue.t # "null" /\ maxValue.n < minValue.n
              THEN Ok(intToText(maxValue.n))
              ELSE Ok(intToText(minValue.n))
    ELSE IF maxValue.t # "null" /\ ~parsedResult.nan
            /\ parsedResult.v > maxValue.n * FracScale
         THEN Ok(intToText(maxValue.n))
    ELSE Ok(finalResult(result, limitedDecimalPart, parsedResult))

clampNumber(result, limitedDecimalPart, minValue, maxValue) ==
    clampParsed(result, limitedDecimalPart, parseFloat(result), minValue, maxValue)

\* lines 945-951: strip, then keep one leading sign
strippedText(text) == removeChars(text, NotNumericChar)
signedText(text) ==
    IF startsWith(strippedText(text), "-")
    THEN <<"-">> \o removeChars(strippedText(text), IsMinus)
    ELSE strippedText(text)

\* lines 958-962: integers only without maxDecimals, then ',' becomes '.'
\* integers only for a negative maxDecimals alone
integersOnly_negative(maxDecimals) ==
    maxDecimals.t = "number" /\ maxDecimals.n < 0

integersOnly(maxDecimals) ==
    maxDecimals.t = "null" \/ (maxDecimals.t = "number" /\ maxDecimals.n < 0)
commasToDots(text) == [i \in 1..Len(text) |-> IF text[i] = "," THEN "." ELSE text[i]]
newTextOf(text, maxDecimals) ==
    IF integersOnly(maxDecimals)
    THEN commasToDots(removeChars(signedText(text), NotDigitOrMinus))
    ELSE commasToDots(signedText(text))

\* lines 963-968: const [integerPart, decimalPart = ''] = newText.split('.')
integerPartOf(newText) == split(newText, ".")[1]
decimalPartOf(newText) ==
    IF Len(split(newText, ".")) > 1 THEN split(newText, ".")[2] ELSE <<>>
sliceEnd(decimalPart, maxDecimals) ==
    IF maxDecimals.t = "number"
    THEN (IF maxDecimals.n < 0
          THEN Max(0, Len(decimalPart) + maxDecimals.n)
          ELSE maxDecimals.n)
    ELSE Len(decimalPart)
limitedDecimalPartOf(newText, maxDecimals) ==
    slice(decimalPartOf(newText), 0, sliceEnd(decimalPartOf(newText), maxDecimals))

\* lines 970-975
resultOf(newText, limitedDecimalPart) ==
    integerPartOf(newText)
    \o (IF limitedDecimalPart # <<>> THEN <<".">> \o limitedDecimalPart ELSE <<>>)
    \o (IF endsWith(newText, ".") /\ limitedDecimalPart = <<>> THEN <<".">> ELSE <<>>)

numberOf(newText, limitedDecimalPart, params) ==
    clampNumber(resultOf(newText, limitedDecimalPart), limitedDecimalPart,
                params.minValue, params.maxValue)

toOnlyNumbers(text, params) ==
    IF text = <<>> THEN Ok(<<>>)
    ELSE IF strippedText(text) = <<>> THEN Ok(<<>>)
    ELSE IF signedText(text) = <<"-">> THEN Ok(signedText(text))
    ELSE numberOf(newTextOf(text, params.maxDecimals),
                  limitedDecimalPartOf(newTextOf(text, params.maxDecimals),
                                       params.maxDecimals),
                  params)

----------------------------------------------------------------------------
(* Regular expressions.  A custom pattern is one of the patterns named     *)
(* here.                                                                   *)

RegExpSyntaxError(pattern) == pattern \in {"(", "[0-9"}

\* a test that succeeds only when the whole text matches the pattern
RegExpTest_anchored(pattern, text) ==
    CASE pattern \in {"^[0-9]+$", "[0-9]+"} ->
            text # <<>> /\ \A i \in 1..Len(text) : IsDigit(text[i])
      [] pattern = "^[0-9]*$" -> \A i \in 1..Len(text) : IsDigit(text[i])
      [] pattern = "[0-9]" -> Len(text) = 1 /\ IsDigit(text[1])
      [] pattern = "^[a-z]+$" -> text # <<>> /\ \A i \in 1..Len(text) : IsLower(text[i])
      [] OTHER -> FALSE

\* new RegExp(pattern).test(text): the pattern is searched for in the text
RegExpTest(pattern, text) ==
    CASE pattern = "^[0-9]+$" -> text # <<>> /\ \A i \in 1..Len(text) : IsDigit(text[i])
      [] pattern = "^[0-9]*$" -> \A i \in 1..Len(text) : IsDigit(text[i])
      [] pattern = "[0-9]" -> \E i \in 1..Len(text) : IsDigit(text[i])
      [] pattern = "[0-9]+" -> \E i \in 1..Len(text) : IsDigit(text[i])
      [] pattern = "^[a-z]+$" -> text # <<>> /\ \A i \in 1..Len(text) : IsLower(text[i])
      [] OTHER -> FALSE

\* The character class `[${ignoredCharacters}]` of cleanText, for a text
\* without ']': a leading '^' negates the class, a backslash makes the next
\* character literal, and a '-' between two members makes a range of
\* character codes.

\* the characters of the model in the order of their codes
CodeSeq ==
    <<" ", "!", "#", "$", "%", ",", "-", ".">> \o DigitSeq \o <<"@">> \o UpperSeq
    \o <<"\\", "^", "_">> \o LowerSeq \o <<"É", "Ñ", "é", "ñ">>
Code(c) == IF c \in Range(CodeSeq) THEN IndexOf(c, CodeSeq) ELSE 0

\* the class member that starts at position i: its length and its character
atomLen(body, i) == IF body[i] = "\\" THEN 2 ELSE 1
atomChar(body, i) == IF body[i] = "\\" THEN body[i + 1] ELSE body[i]
\* whether the member that starts at i is the lower end of a range
startsRange(body, i) ==
    /\ i + atomLen(body, i) + 1 <= Len(body)
    /\ body[i + atomLen(body, i)] = "-"
rangeEnd(body, i) == i + atomLen(body, i) + 1

\* new RegExp(...) throws a SyntaxError when the closing bracket is escaped
\* by a trailing backslash or a range is out of order
RECURSIVE classSyntaxError(_, _)
classSyntaxError(body, i) ==
    IF i > Len(body) THEN FALSE
    ELSE IF body[i] = "\\" /\ i = Len(body) THEN TRUE
    ELSE IF startsRange(body, i)
         THEN \/ (body[rangeEnd(body, i)] = "\\" /\ rangeEnd(body, i) = Len(body))
              \/ Code(atomChar(body, i)) > Code(atomChar(body, rangeEnd(body, i)))
              \/ classSyntaxError(body, rangeEnd(body, i) + atomLen(body, rangeEnd(body, i)))
         ELSE classSyntaxError(body, i + atomLen(body, i))

RECURSIVE classHas(_, _, _)
classHas(c, body, i) ==
    IF i > Len(body) THEN FALSE
    ELSE IF startsRange(body, i)
         THEN \/ (Code(atomChar(body, i)) <= Code(c)
                  /\ Code(c) <= Code(atomChar(body, rangeEnd(body, i))))
              \/ classHas(c, body, rangeEnd(body, i) + atomLen(body, rangeEnd(body, i)))
         ELSE c = atomChar(body, i) \/ classHas(c, body, i + atomLen(body, i))

classBody(ignored) == IF startsWith(ignored, "^") THEN Tail(ignored) ELSE ignored

CharClassSyntaxError(ignored) == classSyntaxError(classBody(ignored), 1)

\* whether the class matches the character c
classMatches(c, ignored) ==
    IF startsWith(ignored, "^") THEN ~classHas(c, Tail(ignored), 1)
    ELSE classHas(c, ignored, 1)

cleanText(text, ignored) ==
    IF CharClassSyntaxError(ignored) THEN Throws
    ELSE Ok(SelectSeq(text, LAMBDA c : ~classMatches(c, ignored)))

\* the fallback with a memory that is never written
toValidCustomRegex_unrecorded(text, regex, mem) ==
    IF regex.t = "null" \/ regex.s = "" THEN [thrown |-> FALSE, text |-> text, mem |-> mem]
    ELSE IF RegExpSyntaxError(regex.s) THEN [thrown |-> TRUE, text |-> <<>>, mem |-> mem]
    ELSE IF RegExpTest(regex.s, text) THEN [thrown |-> FALSE, text |-> text, mem |-> mem]
    ELSE [thrown |-> FALSE, text |-> mem, mem |-> mem]

\* toValidCustomRegex: the text returned and the new lastValidValueWithCustomRegex
toValidCustomRegex(text, regex, mem) ==
    IF regex.t = "null" \/ regex.s = "" THEN [thrown |-> FALSE, text |-> text, mem |-> mem]
    ELSE IF RegExpSyntaxError(regex.s) THEN [thrown |-> TRUE, text |-> <<>>, mem |-> mem]
    ELSE IF RegExpTest(regex.s, text) THEN [thrown |-> FALSE, text |-> text, mem |-> text]
    ELSE [thrown |-> FALSE, text |-> mem, mem |-> mem]

----------------------------------------------------------------------------
(* The pipeline *)

\* the result of a rule that neither throws nor touches the custom-regex memory
Pure(text, mem) == [thrown |-> FALSE, text |-> text, mem |-> mem]

withMem(r, mem) == [thrown |-> r.thrown, text |-> r.text, mem |-> mem]

onlyNumbersCase(text, mem) == withMem(toOnlyNumbers(text, onlyNumberParams), mem)

\* the switch of transformText, on a text already cleaned
applyCase(text, caseType, mem) ==
    CASE caseType = Upper -> Pure(toUpperCase(text), mem)
      [] caseType = Lower -> Pure(toLowerCase(text), mem)
      [] caseType = Camel -> Pure(toCamelCase(removeDiacritics(text)), mem)
      [] caseType = Pascal -> Pure(toPascalCase(removeDiacritics(text)), mem)
      [] caseType = Snake -> Pure(toSnakeCase(removeDiacritics(text)), mem)
      [] caseType = NoSpaces -> Pure(toNoSpaces(text), mem)
      [] caseType = Alphanumeric -> Pure(toAlphanumeric(text), mem)
      [] caseType = OnlyLetters -> Pure(toOnlyLetters(text), mem)
      [] caseType = OnlyLettersAndSpaces -> Pure(toOnlyLettersAndSpaces(text), mem)
      [] caseType = Kebab -> Pure(toKebabCase(removeDiacritics(text)), mem)
      [] caseType = OnlyNumbers -> onlyNumbersCase(text, mem)
      [] caseType = CustomRegex -> toValidCustomRegex(text, customRegex, mem)
      [] OTHER -> Pure(text, mem)

\* the final cleanText of transformText, on the result of the switch
cleanCased(cased) ==
    IF cased.thrown THEN cased
    ELSE withMem(cleanText(cased.text, ignoredCharacters), cased.mem)

\* the switch and the final cleanText, on the result of the first cleanText
caseCleaned(cleaned, caseType, mem) ==
    IF cleaned.thrown THEN withMem(cleaned, mem)
    ELSE cleanCased(applyCase(cleaned.text, caseType, mem))

\* transformText(text, caseType), with lastValidValueWithCustomRegex threaded
transformText(text, caseType, mem) ==
    caseCleaned(cleanText(text, ignoredCharacters), caseType, mem)

\* the forEach of transformAndWriteValue: every rule is given the raw value,
\* and the result of the last rule is kept
RECURSIVE runFormats(_, _, _, _)
runFormats(value, formats, i, acc) ==
    IF i > Len(formats) \/ acc.thrown THEN acc
    ELSE runFormats(value, formats, i + 1, transformText(value, formats[i], acc.mem))

\* the value transformAndWriteValue writes and returns, the new
\* lastValidValueWithCustomRegex, and whether it threw before writing
transformAndWriteValue(value) ==
    runFormats(value, formatCaseValue, 1,
               [thrown |-> FALSE, text |-> value, mem |-> lastValid])

----------------------------------------------------------------------------
(* HistoryManager *)

\* saveStateForUndo(value): the new historyZ
saveStateForUndo(hz, value) == Append(hz, value)

\* a faulty undo(): it returns the value it popped
HistoryManager_undo_popped(hz, hy) ==
    IF Len(hz) > 1
    THEN [z |-> SubSeq(hz, 1, Len(hz) - 1),
          y |-> Append(hy, hz[Len(hz)]),
          ret |-> Str(hz[Len(hz)])]
    ELSE [z |-> hz, y |-> hy, ret |-> Null]

\* undo(): the new stacks and the value returned
HistoryManager_undo(hz, hy) ==
    LET historySize == Len(hz)
    IN  IF historySize > 1
        THEN [z |-> SubSeq(hz, 1, historySize - 1),
              y |-> Append(hy, hz[historySize]),
              ret |-> Str(hz[historySize - 1])]
        ELSE [z |-> hz, y |-> hy, ret |-> Null]

\* a redo() that leaves the memento it returns on the redo stack
HistoryManager_redo_kept(hz, hy) ==
    IF hy # <<>>
    THEN [z |-> Append(hz, hy[Len(hy)]), y |-> hy, ret |-> Str(hy[Len(hy)])]
    ELSE [z |-> hz, y |-> hy, ret |-> Null]

\* redo(): the new stacks and the value returned
HistoryManager_redo(hz, hy) ==
    IF hy # <<>>
    THEN [z |-> Append(hz, hy[Len(hy)]),
          y |-> SubSeq(hy, 1, Len(hy) - 1),
          ret |-> Str(hy[Len(hy)])]
    ELSE [z |-> hz, y |-> hy, ret |-> Null]

----------------------------------------------------------------------------
(* The host element *)

\* a valid floating-point number without exponent: an optional '-', then
\* digits, or '.' and digits, or both
IsValidFloat(text) ==
    \E sign \in 0..1, int \in 0..Len(text) :
        /\ sign = 1 => (text # <<>> /\ text[1] = "-")
        /\ sign <= int
        /\ \A i \in (sign + 1)..int : IsDigit(text[i])
        /\ \/ int = Len(text) /\ int > sign
           \/ /\ int + 1 < Len(text)
              /\ text[int + 1] = "."
              /\ \A i \in (int + 2)..Len(text) : IsDigit(text[i])

\* the value an element of type number keeps of a text set as its value
\* property: the empty text unless the text is a valid number
sanitized(text) ==
    IF elType = "number" /\ ~IsValidFloat(text) THEN <<>> ELSE text

\* the value property set through the pipeline
setValueProperty_formatted(value) ==
    IF value.t = "null" THEN <<>> ELSE toUpperCase(value.s)

\* renderer.setProperty(el, 'value', value): the value the element then holds
\* (an input element turns null into the empty text)
setValueProperty(value) == IF value.t = "null" THEN <<>> ELSE sanitized(value.s)

\* isNumberType()
isNumberType == elType = "number"

\* what a handler records for the observers
Outcome(name, arg, raised, notified, ret) ==
    [op |-> name, arg |-> arg, raised |-> raised, notified |-> notified, ret |-> ret]

\* the selection an input element has after its value property is set: a
\* changed value moves the caret to the end of the text
selectionAfterWrite(newValue) ==
    IF newValue # elValue
    THEN [start |-> Len(newValue), end |-> Len(newValue)]
    ELSE [start |-> selStart, end |-> selEnd]

\* updateSelection(start) after the value newValue was written: the element
\* clamps a position to the length of its value
updateSelection(start, newValue) ==
    [start |-> Min(start, Len(newValue)), end |-> Min(start, Len(newValue))]

\* findWordStart(text, position)
RECURSIVE findWordStartFrom(_, _)
findWordStartFrom(text, start) ==
    IF start >= 0 /\ ~IsSpace(text[start + 1])
    THEN findWordStartFrom(text, start - 1)
    ELSE start + 1

\* a search that runs to the start of the text
findWordStart_line(text, position) == 0

findWordStart(text, position) ==
    IF position = 0 THEN 0 ELSE findWordStartFrom(text, position - 1)

specialKeys == {"z", "y", "a", "backspace", "delete"}

HistoryHasRoom == Len(historyZ) + Len(historyY) < MaxHist

----------------------------------------------------------------------------
(* Event handlers of the directive *)

\* onInput after transformAndWriteValue gave r (r.thrown: it threw)
onInputWith(value, start, r) ==
    IF r.thrown
    THEN /\ elValue' = value
         /\ selStart' = start /\ selEnd' = start
         /\ lastValid' = r.mem
         /\ lastOp' = Outcome("onInput", Str(value), TRUE, FALSE, Null)
         /\ UNCHANGED <<historyVars, lastValue, formValue>>
    ELSE /\ elValue' = r.text
         /\ lastValue' = r.text
         /\ lastValid' = r.mem
         /\ selStart' = updateSelection(start, r.text).start
         /\ selEnd' = updateSelection(start, r.text).end
         /\ formValue' = Str(r.text)
         /\ historyZ' = saveStateForUndo(historyZ, r.text)
         /\ lastOp' = Outcome("onInput", Str(value), FALSE, TRUE, Null)
         /\ UNCHANGED historyY

\* @HostListener('input'): the element already holds the typed value and
\* the caret the browser gave it
onInput(value, caret) ==
    /\ caret \in 0..Len(value)
    /\ HistoryHasRoom
    /\ IF isNumberType
       THEN /\ elValue' = value
            /\ selStart' = caret /\ selEnd' = caret
            /\ lastOp' = Outcome("onInput", Str(value), FALSE, FALSE, Null)
            /\ UNCHANGED <<historyVars, lastValid, lastValue, formValue>>
       ELSE onInputWith(value, caret, transformAndWriteValue(value))
    /\ UNCHANGED <<configVars, focusVars, elType, disabled, touched,
                   pasteEmitted, hlog>>

\* an undo() that also takes the memory of the custom pattern back
undoWith_rollback(h) ==
    /\ historyZ' = h.z /\ historyY' = h.y
    /\ elValue' = setValueProperty(h.ret)
    /\ selStart' = selectionAfterWrite(setValueProperty(h.ret)).start
    /\ selEnd' = selectionAfterWrite(setValueProperty(h.ret)).end
    /\ formValue' = h.ret
    /\ lastOp' = Outcome("undo", Null, FALSE, TRUE, h.ret)
    /\ lastValid' = setValueProperty(h.ret)
    /\ UNCHANGED lastValue

\* undo() after historyManager.undo() gave h
undoWith(h) ==
    /\ historyZ' = h.z /\ historyY' = h.y
    /\ elValue' = setValueProperty(h.ret)
    /\ selStart' = selectionAfterWrite(setValueProperty(h.ret)).start
    /\ selEnd' = selectionAfterWrite(setValueProperty(h.ret)).end
    /\ formValue' = h.ret
    /\ lastOp' = Outcome("undo", Null, FALSE, TRUE, h.ret)
    /\ UNCHANGED <<lastValid, lastValue>>

\* the private undo() of the directive
undo == undoWith(HistoryManager_undo(historyZ, historyY))

\* redo() after historyManager.redo() gave h
redoWith(h) ==
    /\ historyZ' = h.z /\ historyY' = h.y
    /\ IF h.ret.t # "null"
       THEN /\ elValue' = setValueProperty(h.ret)
            /\ selStart' = selectionAfterWrite(setValueProperty(h.ret)).start
            /\ selEnd' = selectionAfterWrite(setValueProperty(h.ret)).end
            /\ formValue' = h.ret
            /\ lastOp' = Outcome("redo", Null, FALSE, TRUE, h.ret)
       ELSE /\ lastOp' = Outcome("redo", Null, FALSE, FALSE, h.ret)
            /\ UNCHANGED <<elValue, selVars, formValue>>
    /\ UNCHANGED <<lastValid, lastValue>>

\* the private redo() of the directive
redo == redoWith(HistoryManager_redo(historyZ, historyY))

\* selectAll(): el.select()
selectAll ==
    /\ selStart' = 0 /\ selEnd' = Len(elValue)
    /\ lastOp' = Outcome("selectAll", Null, FALSE, FALSE, Null)
    /\ UNCHANGED <<historyVars, elValue, formValue, lastValid, lastValue>>

\* handleCtrlBackspace() deleting the positions from..to-1 of the value
deleteRange(from, to) ==
    slice(elValue, 0, from) \o slice(elValue, to, Len(elValue))

ctrlBackspaceWith(newValue, caret) ==
    /\ HistoryHasRoom
    /\ elValue' = newValue
    /\ selStart' = updateSelection(caret, newValue).start
    /\ selEnd' = updateSelection(caret, newValue).end
    /\ historyZ' = saveStateForUndo(historyZ, newValue)
    /\ formValue' = Str(newValue)
    /\ lastOp' = Outcome("handleCtrlBackspace", Null, FALSE, TRUE, Null)
    /\ UNCHANGED <<historyY, lastValid, lastValue>>

\* handleCtrlBackspace()
handleCtrlBackspace ==
    IF selStart # selEnd
    THEN ctrlBackspaceWith(deleteRange(selStart, selEnd), selStart)
    ELSE ctrlBackspaceWith(deleteRange(findWordStart(elValue, selStart), selStart),
                           findWordStart(elValue, selStart))

\* @HostListener('keydown'), with handleSpecialKeys
onKeyDown(key, ctrlKey) ==
    /\ IF isNumberType \/ ~ctrlKey \/ key \notin specialKeys
       THEN /\ lastOp' = Outcome("keyIgnored", Null, FALSE, FALSE, Null)
            /\ UNCHANGED <<historyVars, elValue, selVars, formValue, lastValid, lastValue>>
       ELSE CASE key = "z" -> undo
              [] key = "y" -> redo
              [] key = "a" -> selectAll
              [] OTHER -> handleCtrlBackspace
    /\ UNCHANGED <<configVars, focusVars, elType, disabled, touched, pasteEmitted, hlog>>

\* @HostListener('blur')
onBlur ==
    /\ activeBlur' = TRUE
    /\ activeFocus' = FALSE
    /\ touched' = TRUE
    /\ lastOp' = Outcome("onBlur", Null, FALSE, FALSE, Null)
    /\ UNCHANGED <<historyVars, configVars, lastValid, lastValue, elValue, elType,
                   selVars, disabled, formValue, pasteEmitted, hlog>>

\* @HostListener('focus')
onFocus ==
    /\ activeBlur' = FALSE
    /\ activeFocus' = TRUE
    /\ lastOp' = Outcome("onFocus", Null, FALSE, FALSE, Null)
    /\ UNCHANGED <<historyVars, configVars, lastValid, lastValue, elValue, elType,
                   selVars, disabled, formValue, touched, pasteEmitted, hlog>>

\* an onPaste that commits the clipboard text instead of the text written
onPasteWith_raw(pastedText, r) ==
    IF r.thrown
    THEN /\ lastValid' = r.mem
         /\ lastOp' = Outcome("onPaste", Str(pastedText), TRUE, FALSE, Null)
         /\ UNCHANGED <<historyVars, elValue, selVars, formValue, pasteEmitted>>
    ELSE /\ elValue' = r.text
         /\ selStart' = selectionAfterWrite(r.text).start
         /\ selEnd' = selectionAfterWrite(r.text).end
         /\ lastValid' = r.mem
         /\ historyZ' = saveStateForUndo(historyZ, pastedText)
         /\ formValue' = Str(r.text)
         /\ pasteEmitted' = Str(r.text)
         /\ lastOp' = Outcome("onPaste", Str(pastedText), FALSE, TRUE, Null)
         /\ UNCHANGED historyY

\* onPaste after transformAndWriteValue gave r
onPasteWith(pastedText, r) ==
    IF r.thrown
    THEN /\ lastValid' = r.mem
         /\ lastOp' = Outcome("onPaste", Str(pastedText), TRUE, FALSE, Null)
         /\ UNCHANGED <<historyVars, elValue, selVars, formValue, pasteEmitted>>
    ELSE /\ elValue' = r.text
         /\ selStart' = selectionAfterWrite(r.text).start
         /\ selEnd' = selectionAfterWrite(r.text).end
         /\ lastValid' = r.mem
         /\ historyZ' = saveStateForUndo(historyZ, r.text)
         /\ formValue' = Str(r.text)
         /\ pasteEmitted' = Str(r.text)
         /\ lastOp' = Outcome("onPaste", Str(pastedText), FALSE, TRUE, Null)
         /\ UNCHANGED historyY

\* @HostListener('paste'): the native insertion is prevented
onPaste(pastedText) ==
    /\ HistoryHasRoom
    /\ IF isNumberType
       THEN /\ lastOp' = Outcome("onPaste", Str(pastedText), FALSE, FALSE, Null)
            /\ UNCHANGED <<historyVars, elValue, selVars, formValue, lastValid,
                           pasteEmitted>>
       ELSE onPasteWith(pastedText, transformAndWriteValue(pastedText))
    /\ UNCHANGED <<configVars, focusVars, lastValue, elType, disabled, touched, hlog>>

\* ngDoCheck after transformAndWriteValue gave r
ngDoCheckWith(r) ==
    IF r.thrown
    THEN /\ lastValid' = r.mem
         /\ lastOp' = Outcome("ngDoCheck", Null, TRUE, FALSE, Null)
         /\ UNCHANGED <<elValue, selVars, lastValue>>
    ELSE /\ elValue' = sanitized(r.text)
         /\ selStart' = selectionAfterWrite(sanitized(r.text)).start
         /\ selEnd' = selectionAfterWrite(sanitized(r.text)).end
         /\ lastValid' = r.mem
         /\ lastValue' = r.text
         /\ lastOp' = Outcome("ngDoCheck", Null, FALSE, FALSE, Null)

\* ngDoCheck()
ngDoCheck ==
    /\ IF lastValue = elValue
       THEN /\ lastOp' = Outcome("ngDoCheck", Null, FALSE, FALSE, Null)
            /\ UNCHANGED <<elValue, selVars, lastValid, lastValue>>
       ELSE ngDoCheckWith(transformAndWriteValue(elValue))
    /\ UNCHANGED <<historyVars, configVars, focusVars, elType, disabled,
                   formValue, touched, pasteEmitted, hlog>>

\* the user moves the caret or selects a range of the field: the selection
\* the handlers then read from the element
userSelects(start, end) ==
    /\ start <= end /\ end <= Len(elValue)
    /\ selStart' = start /\ selEnd' = end
    /\ lastOp' = Outcome("userSelects", Null, FALSE, FALSE, Null)
    /\ UNCHANGED <<historyVars, configVars, focusVars, lastValid, lastValue, elValue,
                   elType, disabled, formValue, touched, pasteEmitted, hlog>>

\* writeValue(value) called by the form (ControlValueAccessor)
writeValue(value) ==
    /\ elValue' = setValueProperty(value)
    /\ selStart' = selectionAfterWrite(setValueProperty(value)).start
    /\ selEnd' = selectionAfterWrite(setValueProperty(value)).end
    /\ lastOp' = Outcome("writeValue", value, FALSE, FALSE, Null)
    /\ UNCHANGED <<historyVars, configVars, focusVars, lastValid, lastValue,
                   elType, disabled, formValue, touched, pasteEmitted, hlog>>

\* setDisabledState(isDisabled)
setDisabledState(isDisabled) ==
    /\ disabled' = isDisabled
    /\ lastOp' = Outcome("setDisabledState", Null, FALSE, FALSE, Null)
    /\ UNCHANGED <<historyVars, configVars, focusVars, lastValid, lastValue, elValue,
                   elType, selVars, formValue, touched, pasteEmitted, hlog>>

----------------------------------------------------------------------------
(* Configuration inputs of the directive *)

JOIN == <<"j", "o", "i", "n">>

\* the setter with entries that are not trimmed
formatCaseSetter_untrimmed(value, current) ==
    IF value.t # "string" \/ value.s = <<>> THEN <<Default>>
    ELSE LET trimmedValue == toLowerCase(trim(value.s))
             entries == split(trimmedValue, ",")
             formatCaseValues == SelectSeq(entries, LAMBDA f : f \in FormatCaseTypeAlias)
         IN  IF includes(trimmedValue, JOIN) THEN current
             ELSE IF formatCaseValues # <<>> THEN formatCaseValues
             ELSE <<Default>>

\* set formatCase(value: string): the new formatCaseValue
formatCaseSetter(value, current) ==
    IF value.t # "string" \/ value.s = <<>> THEN <<Default>>
    ELSE LET trimmedValue == toLowerCase(trim(value.s))
             entries == split(trimmedValue, ",")
             mapped == [i \in 1..Len(entries) |-> toLowerCase(trim(entries[i]))]
             formatCaseValues == SelectSeq(mapped, LAMBDA f : f \in FormatCaseTypeAlias)
         IN  IF includes(trimmedValue, JOIN) THEN current
             ELSE IF formatCaseValues # <<>> THEN formatCaseValues
             ELSE <<Default>>

\* the setter taking the list only while the rule sequence is [default]
joinedFormatsSetter_onlyFirst(value, current) ==
    IF value.t = "string" /\ value.s # <<>> /\ current = <<Default>>
    THEN formatCaseSetter(value, current)
    ELSE current

\* set joinedFormats(value: string): the new formatCaseValue
joinedFormatsSetter(value, current) ==
    IF value.t = "string" /\ value.s # <<>>
    THEN formatCaseSetter(value, current)
    ELSE current

\* An object given to the onlyNumberParams setter is a record
\* [keys, maxDecimals, minValue, maxValue]: its own keys, and the value read
\* for each of the three parameters (Undefined for an absent key).
OnlyNumberParamsAlias == {"maxDecimals", "minValue", "maxValue"}

\* the setter keeping the current value of every key the object lacks
onlyNumberParamsSetter_merged(settings, current) ==
    [maxDecimals |-> IF "maxDecimals" \in settings.keys
                     THEN settings.maxDecimals ELSE current.maxDecimals,
     minValue |-> IF "minValue" \in settings.keys
                  THEN settings.minValue ELSE current.minValue,
     maxValue |-> IF "maxValue" \in settings.keys
                  THEN settings.maxValue ELSE current.maxValue]

\* set onlyNumberParams(settings): the new _onlyNumberParams
onlyNumberParamsSetter(settings, current) ==
    IF settings.keys # {}
    THEN [maxDecimals |-> settings.maxDecimals,
          minValue |-> settings.minValue,
          maxValue |-> settings.maxValue]
    ELSE current

setFormatCase(value) ==
    /\ formatCaseValue' = formatCaseSetter(value, formatCaseValue)
    /\ lastOp' = Outcome("setFormatCase", value, FALSE, FALSE, Null)
    /\ UNCHANGED <<historyVars, ignoredCharacters, customRegex, onlyNumberParams,
                   focusVars, lastValid, lastValue, elValue, elType, selVars,
                   disabled, formValue, touched, pasteEmitted, hlog>>

setJoinedFormats(value) ==
    /\ formatCaseValue' = joinedFormatsSetter(value, formatCaseValue)
    /\ lastOp' = Outcome("setJoinedFormats", value, FALSE, FALSE, Null)
    /\ UNCHANGED <<historyVars, ignoredCharacters, customRegex, onlyNumberParams,
                   focusVars, lastValid, lastValue, elValue, elType, selVars,
                   disabled, formValue, touched, pasteEmitted, hlog>>

setOnlyNumberParams(settings) ==
    /\ onlyNumberParams' = onlyNumberParamsSetter(settings, onlyNumberParams)
    /\ lastOp' = Outcome("setOnlyNumberParams", settings, FALSE, FALSE, Null)
    /\ UNCHANGED <<historyVars, formatCaseValue, ignoredCharacters, customRegex,
                   focusVars, lastValid, lastValue, elValue, elType, selVars,
                   disabled, formValue, touched, pasteEmitted, hlog>>

\* @Input() customRegex: a plain field, bound by the host
setCustomRegex(regex) ==
    /\ customRegex' = regex
    /\ lastOp' = Outcome("setCustomRegex", regex, FALSE, FALSE, Null)
    /\ UNCHANGED <<historyVars, formatCaseValue, ignoredCharacters, onlyNumberParams,
                   focusVars, lastValid, lastValue, elValue, elType, selVars,
                   disabled, formValue, touched, pasteEmitted, hlog>>

----------------------------------------------------------------------------
(* The state after construction *)

NoParams == [maxDecimals |-> Undefined, minValue |-> Undefined, maxValue |-> Undefined]

\* the field initialisers of the directive and of HistoryManager, on an
\* empty input element of the given type, with the inputs bound to a
\* configuration
Configured(type, rules, ignored, regex, params) ==
    /\ historyZ = <<>>
    /\ historyY = <<>>
    /\ formatCaseValue = rules
    /\ ignoredCharacters = ignored
    /\ customRegex = regex
    /\ onlyNumberParams = params
    /\ lastValid = <<>>
    /\ activeBlur = FALSE
    /\ activeFocus = FALSE
    /\ lastValue = <<>>
    /\ elValue = <<>>
    /\ elType = type
    /\ selStart = 0
    /\ selEnd = 0
    /\ disabled = FALSE
    /\ formValue = Undefined
    /\ touched = FALSE
    /\ pasteEmitted = Undefined
    /\ lastOp = Outcome("constructor", Null, FALSE, FALSE, Null)
    /\ hlog = <<>>

\* the directive with every input left at its default
Constructed(type) == Configured(type, <<Default>>, <<>>, Null, NoParams)

----------------------------------------------------------------------------
(* Spec: editing a text field under the default rule *)

\* the texts typed or pasted in the editing specification
EditTexts == {<<"a">>, <<"b">>, <<"a", " ", "b">>}
EditKeys == {"z", "y", "a", "backspace", "x"}

Init == Constructed("text")

Next ==
    \/ \E value \in EditTexts : onInput(value, Len(value))
    \/ \E pastedText \in EditTexts : onPaste(pastedText)
    \/ \E key \in EditKeys, ctrlKey \in BOOLEAN : onKeyDown(key, ctrlKey)
    \/ ngDoCheck

Spec == Init /\ [][Next]_vars

\* C1: the redo stack is empty after every ordinary committed edit (onInput,
\* onPaste, delete-word-backward), so that the next redo returns none
CommitClearsRedo ==
    (lastOp.op \in {"onInput", "onPaste", "handleCtrlBackspace"} /\ lastOp.notified)
        => historyY = <<>>

\* C4: an undo or a redo for which EditHistory returns none leaves the
\* displayed value unchanged and does not notify FormBridge
NoneIsNoOp ==
    [][(lastOp'.op \in {"undo", "redo"} /\ lastOp'.ret = Null)
          => (elValue' = elValue /\ ~lastOp'.notified)]_vars

----------------------------------------------------------------------------
(* SpecHistoryManager: a HistoryManager called directly *)

HistoryValues == {<<"a">>, <<"b">>}

Call(name, arg, ret) == [op |-> name, arg |-> arg, ret |-> ret]

directiveVars == <<configVars, focusVars, lastValid, lastValue, elValue, elType,
                   selVars, disabled, formValue, touched, pasteEmitted, lastOp>>

callSaveStateForUndo(value) ==
    /\ Len(hlog) < MaxCalls
    /\ historyZ' = saveStateForUndo(historyZ, value)
    /\ hlog' = Append(hlog, Call("saveStateForUndo", value, Null))
    /\ UNCHANGED <<historyY, directiveVars>>

callWith(name, h) ==
    /\ Len(hlog) < MaxCalls
    /\ historyZ' = h.z
    /\ historyY' = h.y
    /\ hlog' = Append(hlog, Call(name, <<>>, h.ret))
    /\ UNCHANGED directiveVars

callUndo == callWith("undo", HistoryManager_undo(historyZ, historyY))

callRedo == callWith("redo", HistoryManager_redo(historyZ, historyY))

NextHistoryManager ==
    \/ \E value \in HistoryValues : callSaveStateForUndo(value)
    \/ callUndo
    \/ callRedo

SpecHistoryManager == Init /\ [][NextHistoryManager]_vars

\* the calls from..to of the log are all calls of the operation name
AllCalls(name, from, to) ==
    to <= Len(hlog) /\ \A i \in from..to : hlog[i].op = name

\* C2: after exactly n >= 1 commits v1..vn on an empty history, the k-th undo
\* returns v(n-k) for k < n and none for k = n; after these n undos the k-th
\* redo returns v(k+1) for k < n and none for k = n
HistoryBounds ==
    \A n \in 1..Len(hlog) :
        (AllCalls("saveStateForUndo", 1, n)
         /\ (n < Len(hlog) => hlog[n + 1].op # "saveStateForUndo"))
        => \A k \in 1..n :
              /\ AllCalls("undo", n + 1, n + k)
                    => hlog[n + k].ret = (IF k < n THEN Str(hlog[n - k].arg) ELSE Null)
              /\ (AllCalls("undo", n + 1, 2 * n) /\ AllCalls("redo", 2 * n + 1, 2 * n + k))
                    => hlog[2 * n + k].ret = (IF k < n THEN Str(hlog[k + 1].arg) ELSE Null)

\* two different values committed, undone to none and redone to none
HistoryBoundsWitness ==
    /\ Len(hlog) = 6
    /\ AllCalls("saveStateForUndo", 1, 2) /\ hlog[1].arg # hlog[2].arg
    /\ AllCalls("undo", 3, 4) /\ AllCalls("redo", 5, 6)
    /\ hlog[3].ret = Str(hlog[1].arg) /\ hlog[4].ret = Null
    /\ hlog[5].ret = Str(hlog[2].arg) /\ hlog[6].ret = Null

\* the number of commits made so far on the bare HistoryManager
commits == Len(SelectSeq(hlog, LAMBDA call : call.op = "saveStateForUndo"))

front(stack) == SubSeq(stack, 1, Len(stack) - 1)
top(stack) == stack[Len(stack)]

\* the step moves the memento on top of the stack from onto the stack to
MovesTop(from, to, fromNext, toNext) ==
    /\ from # <<>>
    /\ fromNext = front(from)
    /\ toNext = Append(to, top(from))

\* C31: the two stacks together hold as many mementos as commits were made,
\* the undo stack is never empty once a commit has been made, and an undo
\* or a redo either leaves both stacks as they are or moves the memento on
\* top of one stack, unaltered, onto the other
MementosConserved ==
    /\ [](Len(historyZ) + Len(historyY) = commits)
    /\ [](commits > 0 => historyZ # <<>>)
    /\ [][/\ (Len(hlog') > Len(hlog) /\ top(hlog').op = "undo")
              => \/ UNCHANGED historyVars
                 \/ MovesTop(historyZ, historyY, historyZ', historyY')
          /\ (Len(hlog') > Len(hlog) /\ top(hlog').op = "redo")
              => \/ UNCHANGED historyVars
                 \/ MovesTop(historyY, historyZ, historyY', historyZ')]_vars

\* "a" and "b" committed, one undo, one redo, one more undo: "b" is on the
\* redo stack and "a" on the undo stack
MementosWitness ==
    /\ Len(hlog) = 5
    /\ AllCalls("saveStateForUndo", 1, 2)
    /\ hlog[3].op = "undo" /\ hlog[4].op = "redo" /\ hlog[5].op = "undo"
    /\ historyZ = <<hlog[1].arg>>
    /\ historyY = <<hlog[2].arg>>
    /\ hlog[1].arg # hlog[2].arg

----------------------------------------------------------------------------
(* SpecPipeline: the first edit of a field under a rule sequence *)

PipelineRules == {Upper, Lower, Snake, Kebab, NoSpaces, Camel, Pascal, Alphanumeric}
PipelineRuleSeqs == UNION {[1..k -> PipelineRules] : k \in 1..MaxEntries}
PipelineChars == {"a", "B", " ", "-"}
PipelineTexts == Texts(PipelineChars, MaxLen) \cup {<<"a", "-", "b", " ", "c">>}

InitPipeline ==
    \E rules \in PipelineRuleSeqs : Configured("text", rules, <<>>, Null, NoParams)

FirstEdit == historyZ = <<>> /\ lastOp.op # "onInput"

NextPipeline ==
    \/ \E value \in PipelineTexts : FirstEdit /\ onInput(value, Len(value))
    \/ onFocus
    \/ onBlur

SpecPipeline == InitPipeline /\ [][NextPipeline]_vars

\* rk(...r2(r1(text))...) for the rules r1..rk from the i-th on
RECURSIVE foldRules(_, _, _)
foldRules(text, rules, i) ==
    IF i > Len(rules) THEN text
    ELSE foldRules(transformText(text, rules[i], lastValid).text, rules, i + 1)

\* C3: the value written for a raw text t under the rules r1..rk is
\* rk(...r2(r1(t))...), each rule receiving the output of the rule before it
PipelineFolds ==
    (lastOp.op = "onInput" /\ ~lastOp.raised)
        => elValue = foldRules(lastOp.arg.s, formatCaseValue, 1)

----------------------------------------------------------------------------
(* SpecErrors: the first edit of a field under a rule and its parameters *)

ErrorRules == {<<Upper>>, <<OnlyNumbers>>, <<CustomRegex>>}
ErrorIgnored == {<<>>, <<"a">>, <<"\\">>}
ErrorPatterns == {Null, Str("^[0-9]+$"), Str("(")}
ErrorParams ==
    {NoParams,
     [maxDecimals |-> Num(2), minValue |-> Undefined, maxValue |-> Undefined],
     [maxDecimals |-> Undefined, minValue |-> Num(0), maxValue |-> Undefined],
     [maxDecimals |-> Num(2), minValue |-> Num(0), maxValue |-> Num(100)]}
ErrorTexts == Texts({"1", "a"}, MaxLen)

InitErrors ==
    \E rules \in ErrorRules, ignored \in ErrorIgnored, regex \in ErrorPatterns,
       params \in ErrorParams :
        Configured("text", rules, ignored, regex, params)

NextErrors ==
    \/ \E value \in ErrorTexts : FirstEdit /\ onInput(value, Len(value))
    \/ \E pastedText \in ErrorTexts : historyZ = <<>> /\ onPaste(pastedText)

SpecErrors == InitErrors /\ [][NextErrors]_vars

\* C5: no edit-event handler raises, whatever the configuration and the text
NoHandlerRaises == ~lastOp.raised

----------------------------------------------------------------------------
(* SpecNumbers: the first edit of a field under the onlynumbers rule *)

NumberDecimals == {Undefined, Null, Num(0), Num(2), Num(-1)}
NumberRanges ==
    {<<Undefined, Undefined>>, <<Null, Null>>, <<Num(0), Num(100)>>,
     <<Num(10), Num(5)>>, <<Num(-5), Num(5)>>, <<Num(0), Null>>,
     <<Null, Num(5)>>, <<Num(0), Undefined>>}
NumberChars == {"1", "5", "0", ".", ",", "-", "x"}
NumberTexts ==
    Texts(NumberChars, MaxLen)
        \cup {<<"1", "2", ".", "3", "4", "5", "6">>, <<"1", "2", ".">>}

InitNumbers ==
    \E maxDecimals \in NumberDecimals, range \in NumberRanges :
        Configured("text", <<OnlyNumbers>>, <<>>, Null,
                   [maxDecimals |-> maxDecimals,
                    minValue |-> range[1], maxValue |-> range[2]])

NextNumbers ==
    \E value \in NumberTexts : FirstEdit /\ onInput(value, Len(value))

SpecNumbers == InitNumbers /\ [][NextNumbers]_vars

\* lines 945-975 of toOnlyNumbers: the stripped and truncated text that is parsed
strippedForm(text, maxDecimals) ==
    resultOf(newTextOf(text, maxDecimals),
             limitedDecimalPartOf(newTextOf(text, maxDecimals), maxDecimals))

BothConfigured ==
    onlyNumberParams.minValue.t = "number" /\ onlyNumberParams.maxValue.t = "number"

clampedTo(parsed, minValue, maxValue) ==
    IF parsed.v < minValue.n * FracScale
    THEN elValue = intToText(IF maxValue.n < minValue.n THEN maxValue.n ELSE minValue.n)
    ELSE parsed.v > maxValue.n * FracScale => elValue = intToText(maxValue.n)

\* C6: with minValue and maxValue both configured, an input whose stripped
\* form parses to a number below minValue is written as the numeral of
\* minValue (of maxValue when maxValue < minValue), and one that parses to a
\* number above maxValue is written as the numeral of maxValue
NumericClamp ==
    (/\ lastOp.op = "onInput"
     /\ BothConfigured
     /\ ~parseFloat(strippedForm(lastOp.arg.s, onlyNumberParams.maxDecimals)).nan)
        => /\ ~lastOp.raised
           /\ clampedTo(parseFloat(strippedForm(lastOp.arg.s, onlyNumberParams.maxDecimals)),
                        onlyNumberParams.minValue, onlyNumberParams.maxValue)

\* "150" under {minValue: 0, maxValue: 100} is written as "100"
NumericClampWitness ==
    /\ lastOp.op = "onInput"
    /\ lastOp.arg = Str(<<"1", "5", "0">>)
    /\ onlyNumberParams.minValue = Num(0)
    /\ onlyNumberParams.maxValue = Num(100)
    /\ elValue = <<"1", "0", "0">>

\* a plain unsigned numeral: digits, then optionally '.' and digits
IsPlainNumeral(text) ==
    /\ text # <<>>
    /\ IsDigit(text[1])
    /\ \A i \in 1..Len(text) : IsDigit(text[i]) \/ text[i] = "."
    /\ Cardinality({i \in 1..Len(text) : text[i] = "."}) <= 1

\* the numeral with its decimal part cut to d digits, a pending '.' kept
truncatedNumeral(text, d) ==
    IF \E i \in 1..Len(text) : text[i] = "."
    THEN LET dot == CHOOSE i \in 1..Len(text) : text[i] = "."
         IN  IF dot = Len(text) THEN text
             ELSE IF d = 0 THEN SubSeq(text, 1, dot - 1)
             ELSE SubSeq(text, 1, Min(Len(text), dot + d))
    ELSE text

\* C7: with only maxDecimals = d configured, a numeral is written with its
\* decimal part truncated to d digits, a pending trailing '.' being kept
OnlyMaxDecimalsTruncates ==
    (/\ lastOp.op = "onInput"
     /\ onlyNumberParams.maxDecimals.t = "number"
     /\ onlyNumberParams.maxDecimals.n >= 0
     /\ onlyNumberParams.minValue.t = "undefined"
     /\ onlyNumberParams.maxValue.t = "undefined"
     /\ IsPlainNumeral(lastOp.arg.s))
        => /\ ~lastOp.raised
           /\ elValue = truncatedNumeral(lastOp.arg.s, onlyNumberParams.maxDecimals.n)

----------------------------------------------------------------------------
(* SpecRegex: edits of a field under the customregex rule alone *)

RegexPatterns == {Str("^[0-9]+$"), Str("[0-9]"), Str("[0-9]+"), Str("^[a-z]+$")}
RegexTexts ==
    {<<>>, <<"1">>, <<"a">>, <<"1", "a">>, <<"1", "2", "3">>, <<"1", "2", "3", "a">>}

InitRegex ==
    \E regex \in RegexPatterns :
        Configured("text", <<CustomRegex>>, <<>>, regex, NoParams)

NextRegex == \E value \in RegexTexts : onInput(value, Len(value))

SpecRegex == InitRegex /\ [][NextRegex]_vars

PatternShape(pattern) ==
    CASE pattern = "^[0-9]+$" ->
            [start |-> TRUE, end |-> TRUE, class |-> "digit", min |-> 1, many |-> TRUE]
      [] pattern = "^[0-9]*$" ->
            [start |-> TRUE, end |-> TRUE, class |-> "digit", min |-> 0, many |-> TRUE]
      [] pattern = "[0-9]" ->
            [start |-> FALSE, end |-> FALSE, class |-> "digit", min |-> 1, many |-> FALSE]
      [] pattern = "[0-9]+" ->
            [start |-> FALSE, end |-> FALSE, class |-> "digit", min |-> 1, many |-> TRUE]
      [] pattern = "^[a-z]+$" ->
            [start |-> TRUE, end |-> TRUE, class |-> "lower", min |-> 1, many |-> TRUE]

\* the characters between the anchors of the pattern match the text part
bodyMatches(shape, part) ==
    /\ \A i \in 1..Len(part) :
          IF shape.class = "digit" THEN IsDigit(part[i]) ELSE IsLower(part[i])
    /\ Len(part) >= shape.min
    /\ shape.many \/ Len(part) <= 1

\* the whole text matches the pattern
wholeMatch(pattern, text) == bodyMatches(PatternShape(pattern), text)

\* some part of the text matches the pattern, at the place its anchors allow
searchMatch(pattern, text) ==
    \E from \in 1..(Len(text) + 1), to \in 0..Len(text) :
        /\ from <= to + 1
        /\ PatternShape(pattern).start => from = 1
        /\ PatternShape(pattern).end => to = Len(text)
        /\ bodyMatches(PatternShape(pattern), SubSeq(text, from, to))

Anchored(pattern) == PatternShape(pattern).start /\ PatternShape(pattern).end

----------------------------------------------------------------------------
(* SpecRegexConfig: edits of a field under the customregex rule alone, the
   host replacing the pattern between edits *)

NextRegexConfig ==
    \/ \E value \in RegexTexts : onInput(value, Len(value))
    \/ \E regex \in RegexPatterns : setCustomRegex(regex)

SpecRegexConfig == InitRegex /\ [][NextRegexConfig]_vars

\* C29: with customregex as the only rule and a pattern configured, the
\* value displayed after any onInput is the empty text or a text that the
\* pattern configured at that moment matches
DisplayedMatchesPattern ==
    lastOp.op = "onInput" => (elValue = <<>> \/ RegExpTest(customRegex.s, elValue))

----------------------------------------------------------------------------
(* SpecRegexHost: a field under the customregex rule alone and the pattern
   ^[0-9]+$, edited by the user and written by the form *)

RegexHostTexts == {<<"1">>, <<"1", "2">>, <<"a">>}
RegexHostKeys == {"z", "y", "a", "backspace"}
RegexHostValues == {Str(<<"7">>)}

InitRegexHost ==
    Configured("text", <<CustomRegex>>, <<>>, Str("^[0-9]+$"), NoParams)

NextRegexHost ==
    \/ \E value \in RegexHostTexts : onInput(value, Len(value))
    \/ \E key \in RegexHostKeys : onKeyDown(key, TRUE)
    \/ \E value \in RegexHostValues : writeValue(value)
    \/ onFocus
    \/ onBlur
    \/ ngDoCheck

SpecRegexHost == InitRegexHost /\ [][NextRegexHost]_vars

\* the handlers that validate nothing
NonValidatingOps ==
    {"undo", "redo", "selectAll", "handleCtrlBackspace", "keyIgnored", "onFocus",
     "onBlur", "writeValue"}

\* the text a validating handler gives to the pipeline in a step
validatedText(op, arg, shown) == IF op = "ngDoCheck" THEN shown ELSE arg.s

----------------------------------------------------------------------------
(* SpecWord: a field under the default rule in which a text is typed, then
   ranges are selected and Ctrl+Backspace is pressed *)

WordTexts == Texts({"a", "b", " "}, MaxLen)

NextWord ==
    \/ \E value \in WordTexts : FirstEdit /\ onInput(value, Len(value))
    \/ \E start \in 0..MaxLen, end \in 0..MaxLen : userSelects(start, end)
    \/ onKeyDown("backspace", TRUE)

SpecWord == Init /\ [][NextWord]_vars

\* the text without its positions from..to-1
without(text, from, to) ==
    [i \in 1..(Len(text) - (to - from)) |->
        IF i <= from THEN text[i] ELSE text[i + (to - from)]]

\* the start of the maximal run of non-whitespace characters that ends
\* immediately before the position p
runStart(text, p) ==
    CHOOSE q \in 0..p :
        /\ \A i \in (q + 1)..p : ~IsSpace(text[i])
        /\ q = 0 \/ IsSpace(text[q])

\* where a delete-word-backward starts deleting
deletionPoint == IF selStart # selEnd THEN selStart ELSE runStart(elValue, selStart)

\* C23: delete-word-backward with a selection [a, b] leaves the text without
\* the positions a..b-1 and the caret at a; with a collapsed caret at p it
\* leaves the text without the maximal run of non-whitespace characters that
\* ends immediately before p and the caret at the start of that run; the
\* new text is committed to the history and given to the form
DeleteWordBackward ==
    [][lastOp'.op = "handleCtrlBackspace"
          => /\ elValue' = without(elValue, deletionPoint, selEnd)
             /\ selStart' = deletionPoint /\ selEnd' = deletionPoint
             /\ historyZ' = Append(historyZ, elValue')
             /\ formValue' = Str(elValue')]_vars

\* "a b" with the caret after "a": the word is deleted, " b" is left with
\* the caret at 0
DeleteWordWitness ==
    /\ lastOp.op = "handleCtrlBackspace"
    /\ historyZ = <<<<"a", " ", "b">>, <<" ", "b">>>>
    /\ elValue = <<" ", "b">>
    /\ selStart = 0 /\ selEnd = 0

----------------------------------------------------------------------------
(* The caret, under Spec *)

\* the handler that ran last has written to the field
WroteField ==
    /\ ~lastOp.raised
    /\ \/ lastOp.op \in {"onInput", "onPaste", "undo", "handleCtrlBackspace"}
       \/ (lastOp.op = "redo" /\ lastOp.ret # Null)

\* C24: after every write made by onInput, onPaste, undo, redo or
\* delete-word-backward the selection is collapsed to one position of
\* 0..length of the new text; after an onInput whose caret was at the end of
\* the typed text it is the smaller of that offset and the new length
CaretRestored ==
    /\ WroteField => (selStart = selEnd /\ selStart \in 0..Len(elValue))
    /\ (lastOp.op = "onInput" /\ ~lastOp.raised)
          => selStart = Min(Len(lastOp.arg.s), Len(elValue))

----------------------------------------------------------------------------
(* SpecConfig: the host rebinding the inputs of a constructed directive *)

\* the entries a rule sequence is written from: the text of the entry, the
\* rule it names (none for an unknown entry), and whether it contains "join"
RulePieces ==
    {[text |-> Upper, rule |-> <<Upper>>, join |-> FALSE],
     [text |-> <<" ", "L", "o", "w", "e", "r", " ">>, rule |-> <<Lower>>, join |-> FALSE],
     [text |-> <<"b", "o", "g", "u", "s">>, rule |-> <<>>, join |-> FALSE],
     [text |-> <<>>, rule |-> <<>>, join |-> FALSE],
     [text |-> <<"J", "o", "i", "n", "e", "d">>, rule |-> <<>>, join |-> TRUE]}
PieceSeqs == UNION {[1..k -> RulePieces] : k \in 1..MaxEntries}

RECURSIVE joinPieces(_, _)
joinPieces(ps, i) ==
    IF i > Len(ps) THEN <<>>
    ELSE (IF i > 1 THEN <<",">> ELSE <<>>) \o ps[i].text \o joinPieces(ps, i + 1)

RuleTexts == {Undefined, Null} \cup {Str(joinPieces(ps, 1)) : ps \in PieceSeqs}

ParamObjects ==
    {[keys |-> {}, maxDecimals |-> Undefined, minValue |-> Undefined,
      maxValue |-> Undefined],
     [keys |-> {"maxDecimals"}, maxDecimals |-> Num(2), minValue |-> Undefined,
      maxValue |-> Undefined],
     [keys |-> {"minValue", "maxValue"}, maxDecimals |-> Undefined,
      minValue |-> Num(0), maxValue |-> Num(100)],
     [keys |-> {"maxDecimal"}, maxDecimals |-> Undefined, minValue |-> Undefined,
      maxValue |-> Undefined],
     [keys |-> {"minValue"}, maxDecimals |-> Undefined, minValue |-> Null,
      maxValue |-> Undefined]}

NextConfig ==
    \/ \E value \in RuleTexts : setFormatCase(value)
    \/ \E settings \in ParamObjects : setOnlyNumberParams(settings)

SpecConfig == Init /\ [][NextConfig]_vars

RECURSIVE knownRules(_, _)
knownRules(ps, i) ==
    IF i > Len(ps) THEN <<>> ELSE ps[i].rule \o knownRules(ps, i + 1)

\* the known rules of the entries in their order, [default] when there is none
expectedRules(ps) ==
    IF knownRules(ps, 1) = <<>> THEN <<Default>> ELSE knownRules(ps, 1)

hasJoin(ps) == \E i \in 1..Len(ps) : ps[i].join

\* every written rule sequence with what its entries say it is: the value
\* bound, whether an entry contains "join", and the rules its entries name
WrittenSequences ==
    {[value |-> Str(joinPieces(ps, 1)), join |-> hasJoin(ps),
      rules |-> expectedRules(ps)] : ps \in PieceSeqs}

\* C9 as stated: the rule sequence is split on ',', each entry trimmed and
\* lower-cased, every unknown entry dropped individually, the others kept in
\* order; an empty, absent or entirely invalid sequence yields [default]
ParsesEntries ==
    lastOp.op = "setFormatCase"
        => /\ lastOp.arg.t # "string" => formatCaseValue = <<Default>>
           /\ \A w \in WrittenSequences :
                lastOp.arg = w.value => formatCaseValue = w.rules

\* C9: a rule sequence no entry of which contains "join" is split on ',',
\* each entry trimmed and lower-cased, every unknown entry dropped
\* individually, the others kept in order; an empty, absent or entirely
\* invalid sequence yields [default]; a sequence with an entry that contains
\* "join" leaves the active rule sequence as it was
ParsesEntriesUnlessJoin ==
    [][lastOp'.op = "setFormatCase"
         => /\ lastOp'.arg.t # "string" => formatCaseValue' = <<Default>>
            /\ \A w \in WrittenSequences :
                 lastOp'.arg = w.value
                     => formatCaseValue' =
                            IF w.join THEN formatCaseValue ELSE w.rules]_vars

\* "upper,bogus" was bound, then " Lower ,Joined": the sequence is still [upper]
ParsesEntriesWitness ==
    /\ lastOp.op = "setFormatCase"
    /\ lastOp.arg = Str(<<" ", "L", "o", "w", "e", "r", " ", ",", "J", "o", "i", "n", "e", "d">>)
    /\ formatCaseValue = <<Upper>>

paramsOf(settings) ==
    [maxDecimals |-> settings.maxDecimals, minValue |-> settings.minValue,
     maxValue |-> settings.maxValue]

containsJoin(value) ==
    value.t = "string" /\ includes(toLowerCase(value.s), JOIN)

\* C10 as stated: after the rule-sequence setter is called with s the active
\* rule sequence is a function of s alone, and after the numeric-parameter
\* setter is called with p the active parameters are exactly those of p
ReplacedWholesale ==
    /\ lastOp.op = "setFormatCase"
          => formatCaseValue = formatCaseSetter(lastOp.arg, <<Default>>)
    /\ lastOp.op = "setOnlyNumberParams"
          => onlyNumberParams = paramsOf(lastOp.arg)

\* C10: the rule-sequence setter called with s makes the active rule sequence
\* a function of s alone unless s contains "join", when it leaves it as it
\* was; the numeric-parameter setter called with p makes the active
\* parameters exactly those of p unless p has no key, when it leaves them as
\* they were
ReplacedUnlessJoinOrEmpty ==
    [][/\ lastOp'.op = "setFormatCase"
          => formatCaseValue' =
                IF containsJoin(lastOp'.arg) THEN formatCaseValue
                ELSE formatCaseSetter(lastOp'.arg, <<Default>>)
       /\ lastOp'.op = "setOnlyNumberParams"
          => onlyNumberParams' =
                IF lastOp'.arg.keys = {} THEN onlyNumberParams
                ELSE paramsOf(lastOp'.arg)]_vars

\* {minValue: 0, maxValue: 100} was bound, then {maxDecimals: 2}: the range
\* is gone; and a rule sequence was bound over another one
ReplacedWitness ==
    /\ lastOp.op = "setOnlyNumberParams"
    /\ lastOp.arg.keys = {"maxDecimals"}
    /\ onlyNumberParams =
          [maxDecimals |-> Num(2), minValue |-> Undefined, maxValue |-> Undefined]
    /\ formatCaseValue = <<Lower, Upper>>

----------------------------------------------------------------------------
(* SpecJoin: the deprecated form, toFormatCase="join" with joinedFormats *)

\* the side lists: the rule sequences no entry of which contains "join"
FormatPieces == {piece \in RulePieces : ~piece.join}
FormatLists == UNION {[1..k -> FormatPieces] : k \in 1..MaxEntries}
JoinedTexts == {Undefined} \cup {Str(joinPieces(ps, 1)) : ps \in FormatLists}

NextJoin ==
    \/ \E value \in RuleTexts \cup {Str(JOIN)} : setFormatCase(value)
    \/ \E value \in JoinedTexts : setJoinedFormats(value)

SpecJoin == Init /\ [][NextJoin]_vars

\* C11: binding a side list L of formats makes the active rule sequence the
\* parsed sequence of L, and binding the rule value "join" leaves the active
\* rule sequence as it is, so that the two bindings give the parsed sequence
\* of L in either order (an empty or absent L binds nothing)
JoinForm ==
    [][/\ (lastOp'.op = "setFormatCase" /\ lastOp'.arg = Str(JOIN))
            => formatCaseValue' = formatCaseValue
       /\ lastOp'.op = "setJoinedFormats"
            => /\ (lastOp'.arg.t # "string" \/ lastOp'.arg = Str(<<>>))
                     => formatCaseValue' = formatCaseValue
               /\ \A w \in WrittenSequences :
                     (lastOp'.arg = w.value /\ ~w.join /\ w.value # Str(<<>>))
                         => formatCaseValue' = w.rules]_vars

\* "join" bound after the side list " Lower ,upper": the sequence is [lower, upper]
JoinFormWitness ==
    /\ lastOp.op = "setFormatCase"
    /\ lastOp.arg = Str(JOIN)
    /\ formatCaseValue = <<Lower, Upper>>

----------------------------------------------------------------------------
(* SpecHost: a text field under the upper rule, edited by the user and
   driven by the form through writeValue and setDisabledState *)

HostTexts == {<<"a", " ", "b">>}
HostKeys == {"z", "y", "backspace"}
FormValues == {Null, Str(<<"a">>)}

InitHost == Configured("text", <<Upper>>, <<>>, Null, NoParams)

NextHost ==
    \/ \E value \in HostTexts : onInput(value, Len(value))
    \/ \E pastedText \in HostTexts : onPaste(pastedText)
    \/ \E key \in HostKeys : onKeyDown(key, TRUE)
    \/ \E value \in FormValues : writeValue(value)
    \/ \E isDisabled \in BOOLEAN : setDisabledState(isDisabled)
    \/ ngDoCheck

SpecHost == InitHost /\ [][NextHost]_vars

EditOps ==
    {"onInput", "onPaste", "undo", "redo", "selectAll", "handleCtrlBackspace",
     "keyIgnored"}

\* C12: while the field is disabled, every onInput, onPaste and key command
\* leaves the displayed value, both history stacks and the custom-regex
\* memory unchanged and does not notify the form
DisabledIgnoresEdits ==
    [][(disabled /\ lastOp'.op \in EditOps)
          => /\ elValue' = elValue
             /\ UNCHANGED <<historyVars, lastValid>>
             /\ ~lastOp'.notified]_vars

ControllerSteps ==
    {"onInput", "onPaste", "handleCtrlBackspace", "undo", "redo", "ngDoCheck"}

\* the text a field shows for a value of the form (nothing for null)
shownFor(value) == IF value.t = "string" THEN value.s ELSE <<>>

\* C28: every step of the controller that changes the displayed value gives
\* the new value to the form, and writeValue displays the value received,
\* so that the value last exchanged with the form is the value displayed
DisplayAgreesWithForm ==
    [][/\ (lastOp'.op \in ControllerSteps /\ elValue' # elValue)
            => (lastOp'.notified /\ shownFor(formValue') = elValue')
       /\ lastOp'.op = "writeValue" => elValue' = shownFor(lastOp'.arg)]_vars

\* the handler that ran last has committed an edit, or has restored a
\* value of the history
CommittedOrRestored ==
    \/ (lastOp.op \in {"onInput", "onPaste", "handleCtrlBackspace"} /\ lastOp.notified)
    \/ (lastOp.op \in {"undo", "redo"} /\ lastOp.ret # Null)

\* C32: immediately after an onInput, an onPaste or a delete-word-backward
\* that went through, and after an undo or a redo that returned a value,
\* the memento on top of the undo stack is the value displayed in the field
HistoryTopTracksField ==
    CommittedOrRestored => (historyZ # <<>> /\ top(historyZ) = elValue)

\* an undo has put back the value before the last edit: it is displayed and
\* on top of the undo stack, and the value undone is on the redo stack
HistoryTopWitness ==
    /\ lastOp.op = "undo"
    /\ lastOp.ret = Str(elValue)
    /\ historyZ # <<>> /\ top(historyZ) = elValue
    /\ historyY # <<>> /\ top(historyY) # elValue

----------------------------------------------------------------------------
(* SpecNumberType: an element of type number under a rule *)

NumberTypeRules == {<<Default>>, <<Upper>>, <<Camel>>, <<Kebab>>, <<OnlyLetters>>}
NumberTypeValues == {<<"1">>, <<"1", "5">>, <<"1", ".", "5">>, <<"-", "1">>}
NumberTypeKeys == {"z", "backspace"}

InitNumberType ==
    \E rules \in NumberTypeRules : Configured("number", rules, <<>>, Null, NoParams)

NextNumberType ==
    \/ \E value \in NumberTypeValues : onInput(value, Len(value))
    \/ \E pastedText \in NumberTypeValues : onPaste(pastedText)
    \/ \E key \in NumberTypeKeys : onKeyDown(key, TRUE)
    \/ ngDoCheck

SpecNumberType == InitNumberType /\ [][NextNumberType]_vars

\* C13: while the element is of type number, no event and no change
\* detection check makes the directive write to the field (the field holds
\* what the user typed), changes the history or notifies the form
NumericNeverReformatted ==
    [][elType = "number"
          => /\ lastOp'.op = "onInput" => elValue' = lastOp'.arg.s
             /\ lastOp'.op # "onInput" => elValue' = elValue
             /\ UNCHANGED <<historyVars, formValue>>]_vars

----------------------------------------------------------------------------
(* Pasting *)

\* C14: a paste of the clipboard text c into a field holding s with the
\* selection [a, b] leaves s[0..a) + apply(c) + s[b..] in the field
PasteReplacesSelection ==
    [][(lastOp'.op = "onPaste" /\ ~lastOp'.raised)
          => elValue' = slice(elValue, 0, selStart)
                        \o transformAndWriteValue(lastOp'.arg.s).text
                        \o slice(elValue, selEnd, Len(elValue))]_vars

----------------------------------------------------------------------------
(* SpecIgnored: the first edit of a field under one rule and a text of
   ignored characters *)

IgnoredRules ==
    {Default, Upper, Lower, NoSpaces, Alphanumeric, OnlyLetters,
     OnlyLettersAndSpaces, Snake, Camel}
IgnoredChars == {"a", "B", "-", "^"}
IgnoredSets == Texts(IgnoredChars, MaxIgnored) \cup {<<"B", "-", "a">>}
IgnoredTexts == Texts({"a", "B", " ", "-"}, MaxLen)

InitIgnored ==
    \E rule \in IgnoredRules, ignored \in IgnoredSets :
        Configured("text", <<rule>>, ignored, Null, NoParams)

NextIgnored ==
    \E value \in IgnoredTexts : FirstEdit /\ onInput(value, Len(value))

SpecIgnored == InitIgnored /\ [][NextIgnored]_vars

IdempotentRules ==
    {Upper, Lower, NoSpaces, Alphanumeric, OnlyLetters, OnlyLettersAndSpaces}

\* C17: for each single rule among upper, lower, nospaces, alphanumeric,
\* onlyletters and onlylettersandspaces and every ignored characters, the
\* pipeline applied to the text it wrote gives that text again
Idempotence ==
    (lastOp.op = "onInput" /\ ~lastOp.raised /\ formatCaseValue[1] \in IdempotentRules)
        => /\ ~transformAndWriteValue(elValue).thrown
           /\ transformAndWriteValue(elValue).text = elValue

\* " aB" under upper with 'B' ignored was written as " A", a fixed point
IdempotenceWitness ==
    /\ lastOp.op = "onInput"
    /\ lastOp.arg = Str(<<" ", "a", "B">>)
    /\ formatCaseValue = <<Upper>>
    /\ ignoredCharacters = <<"B">>
    /\ elValue = <<" ", "A">>

----------------------------------------------------------------------------
(* SpecCase: the first edit of a field under a case conversion *)

CaseRules == {Camel, Pascal, Snake, Kebab}
CafeDelMar == <<"c", "a", "f", "é", " ", "d", "e", "l", " ", "m", "a", "r">>
HelloWorld == <<"H", "e", "l", "l", "o", ",", " ", "W", "o", "r", "l", "d", "!">>
ShoutedHelloWorld == <<"h", "E", "L", "L", "O", " ", "w", "O", "R", "L", "D">>
CaseTexts ==
    Texts({"a", "B", " ", "-", "é", "_"}, MaxLen)
        \cup {CafeDelMar, HelloWorld, ShoutedHelloWorld}

InitCase ==
    \E rule \in CaseRules : Configured("text", <<rule>>, <<>>, Null, NoParams)

NextCase ==
    \/ \E value \in CaseTexts : FirstEdit /\ onInput(value, Len(value))
    \/ onFocus
    \/ onBlur
    \/ ngDoCheck

SpecCase == InitCase /\ [][NextCase]_vars

\* the maximal runs of letters a-z, A-Z and digits of a text, in order
RECURSIVE alnumWords(_, _, _)
alnumWords(text, i, word) ==
    IF i > Len(text) THEN (IF word = <<>> THEN <<>> ELSE <<word>>)
    ELSE IF IsAsciiAlnum(text[i]) THEN alnumWords(text, i + 1, Append(word, text[i]))
    ELSE (IF word = <<>> THEN <<>> ELSE <<word>>) \o alnumWords(text, i + 1, <<>>)

\* the words of a raw text once its diacritics are stripped
wordsOf(text) == alnumWords(removeDiacritics(text), 1, <<>>)

RECURSIVE camelOf(_, _)
camelOf(words, i) ==
    IF i > Len(words) THEN <<>>
    ELSE (IF i = 1 THEN <<toLowerChar(words[i][1])>> \o Tail(words[i])
          ELSE <<toUpperChar(words[i][1])>> \o toLowerCase(Tail(words[i])))
         \o camelOf(words, i + 1)

RECURSIVE joinedLower(_, _, _)
joinedLower(words, sep, i) ==
    IF i > Len(words) THEN <<>>
    ELSE (IF i > 1 THEN <<sep>> ELSE <<>>) \o toLowerCase(words[i])
         \o joinedLower(words, sep, i + 1)

hyphenated(text) == [i \in 1..Len(text) |-> IF text[i] = "_" THEN "-" ELSE text[i]]

Unfocused == activeBlur \/ ~activeFocus

SnakeAndKebab ==
    /\ (formatCaseValue = <<Snake>> /\ Unfocused)
          => elValue = joinedLower(wordsOf(lastOp.arg.s), "_", 1)
    /\ (formatCaseValue = <<Kebab>> /\ Unfocused)
          => elValue = joinedLower(wordsOf(lastOp.arg.s), "-", 1)
    /\ formatCaseValue = <<Kebab>>
          => elValue = hyphenated(transformText(lastOp.arg.s, Snake, lastValid).text)

\* C18 as stated: camel gives the first word with a lower-case initial
\* followed by the other words capitalised, with no separator; unfocused
\* snake gives the lower-cased words joined by single '_'; kebab is snake
\* with every '_' replaced by '-'
CaseConversionsRecompose ==
    (lastOp.op = "onInput" /\ ~lastOp.raised)
        => /\ formatCaseValue = <<Camel>> => elValue = camelOf(wordsOf(lastOp.arg.s), 1)
           /\ SnakeAndKebab

\* C18: camel gives the first word with a lower-case initial followed by the
\* other words capitalised, with no separator between them, and then one
\* space when the raw text ends with a space; unfocused snake gives the
\* lower-cased words joined by single '_'; kebab is snake with every '_'
\* replaced by '-'
CaseConversions ==
    (lastOp.op = "onInput" /\ ~lastOp.raised)
        => /\ formatCaseValue = <<Camel>>
                => elValue = camelOf(wordsOf(lastOp.arg.s), 1)
                             \o (IF endsWith(lastOp.arg.s, " ") THEN <<" ">> ELSE <<>>)
           /\ SnakeAndKebab

\* camel("café del mar") = "cafeDelMar"
CaseConversionsWitness ==
    /\ lastOp.op = "onInput"
    /\ lastOp.arg = Str(CafeDelMar)
    /\ formatCaseValue = <<Camel>>
    /\ elValue = <<"c", "a", "f", "e", "D", "e", "l", "M", "a", "r">>

----------------------------------------------------------------------------
(* Pascal case, under SpecCase *)

\* every word with an upper-case initial and a lower-case tail
RECURSIVE capitalizedWords(_, _)
capitalizedWords(words, i) ==
    IF i > Len(words) THEN <<>>
    ELSE <<toUpperChar(words[i][1])>> \o toLowerCase(Tail(words[i]))
         \o capitalizedWords(words, i + 1)

\* the first word with an upper-case initial and its tail as typed, the
\* other words with an upper-case initial and a lower-case tail
pascalOf(words) ==
    IF words = <<>> THEN <<>>
    ELSE <<toUpperChar(words[1][1])>> \o Tail(words[1]) \o capitalizedWords(words, 2)

\* C26 as stated: pascal writes every word, the first included, with an
\* upper-case initial and an all-lower-case tail, with no separator
PascalCapitalizesAll ==
    (lastOp.op = "onInput" /\ ~lastOp.raised /\ formatCaseValue = <<Pascal>>)
        => elValue = capitalizedWords(wordsOf(lastOp.arg.s), 1)

\* C26: pascal writes the first word with an upper-case initial and its tail
\* as typed, every other word with an upper-case initial and an
\* all-lower-case tail, with no separator between the words, and then one
\* space when the raw text ends with a space
PascalKeepsFirstTail ==
    (lastOp.op = "onInput" /\ ~lastOp.raised /\ formatCaseValue = <<Pascal>>)
        => elValue = pascalOf(wordsOf(lastOp.arg.s))
                     \o (IF endsWith(lastOp.arg.s, " ") THEN <<" ">> ELSE <<>>)

\* pascal("hELLO wORLD") = "HELLOWorld"
PascalWitness ==
    /\ lastOp.op = "onInput"
    /\ lastOp.arg = Str(ShoutedHelloWorld)
    /\ formatCaseValue = <<Pascal>>
    /\ elValue = <<"H", "E", "L", "L", "O", "W", "o", "r", "l", "d">>

----------------------------------------------------------------------------
(* Focus and the separators of snake and kebab, under SpecCase *)

\* the separator of the rule of the field
separator == IF formatCaseValue = <<Kebab>> THEN "-" ELSE "_"

SnakeOrKebab == formatCaseValue \in {<<Snake>>, <<Kebab>>}

\* the text has no leading and no trailing separator
Trimmed(text) == text = <<>> \/ (text[1] # separator /\ text[Len(text)] # separator)

\* the typed text ends with a separator character, or with a space typed
\* after something
EndsInSeparator(text) ==
    \/ endsWith(text, "_")
    \/ endsWith(text, "-")
    \/ (Len(text) > 1 /\ endsWith(text, " "))

StartsWithSeparator(text) == startsWith(text, "_") \/ startsWith(text, "-")

\* C25: under snake or kebab the text written for an input has no leading
\* and no trailing separator when the field is not focused (never focused,
\* or blurred since its last focus); while the field is focused the
\* separators are kept: an input that ends in a separator is written with
\* the separator of the rule at its end, and one that starts with a
\* separator with the separator of the rule at its start
FocusGatedTrimming ==
    (lastOp.op = "onInput" /\ ~lastOp.raised /\ SnakeOrKebab)
        => /\ Unfocused => Trimmed(elValue)
           /\ (~Unfocused /\ EndsInSeparator(lastOp.arg.s)) => endsWith(elValue, separator)
           /\ (~Unfocused /\ StartsWithSeparator(lastOp.arg.s))
                 => startsWith(elValue, separator)

\* "a " typed in a focused field under snake is written "a_"
FocusGatedWitness ==
    /\ lastOp.op = "onInput"
    /\ lastOp.arg = Str(<<"a", " ">>)
    /\ formatCaseValue = <<Snake>>
    /\ activeFocus /\ ~activeBlur
    /\ elValue = <<"a", "_">>

\* C30: under snake or kebab alone, whenever the field is not focused the
\* value it displays has no leading and no trailing separator
UnfocusedTrimmed ==
    (SnakeOrKebab /\ Unfocused) => Trimmed(elValue)

----------------------------------------------------------------------------
(* Decimal separators and signs, under SpecNumbers *)

HasSeparator(text) == \E i \in 1..Len(text) : text[i] \in {".", ","}

Returned == lastOp.op = "onInput" /\ ~lastOp.raised

NeverClamps ==
    onlyNumberParams.minValue.t = "null" /\ onlyNumberParams.maxValue.t = "null"

\* digits, then '.', then digits
IsDecimalNumeral(text) ==
    /\ IsPlainNumeral(text)
    /\ HasSeparator(text)
    /\ text[Len(text)] # "."

IsSignedDigits(text) ==
    /\ \A i \in 1..Len(text) : text[i] = "-" \/ (IsDigit(text[i]) /\ text[i] # "0")
    /\ \E i \in 1..Len(text) : IsDigit(text[i])

\* C20: with bounds that do not clamp, every '-' that is not the first
\* character is removed while the digits on both sides of it are kept, and
\* several '-' collapse to at most one leading sign
SignHandling ==
    (Returned /\ NeverClamps /\ IsSignedDigits(lastOp.arg.s))
        => elValue = (IF lastOp.arg.s[1] = "-" THEN <<"-">> ELSE <<>>)
                     \o SelectSeq(lastOp.arg.s, IsDigit)

\* an optional '-', digits, then optionally '.' and digits or a pending '.'
IsNumeral(text) ==
    /\ unsignedPart(text) # <<>>
    /\ IsDigit(unsignedPart(text)[1])
    /\ \A i \in 1..Len(unsignedPart(text)) :
          IsDigit(unsignedPart(text)[i]) \/ unsignedPart(text)[i] = "."
    /\ Cardinality({i \in 1..Len(text) : text[i] = "."}) <= 1

InRange(text, minValue, maxValue) ==
    /\ minValue.n * FracScale <= parseFloat(text).v
    /\ parseFloat(text).v <= maxValue.n * FracScale

\* C27: with integer bounds minValue <= maxValue both configured, every
\* output of onlynumbers is the empty text, the lone sign "-", or a numeral
\* whose value lies in [minValue, maxValue]
RangeInvariant ==
    (/\ Returned
     /\ BothConfigured
     /\ onlyNumberParams.minValue.n <= onlyNumberParams.maxValue.n)
        => \/ elValue \in {<<>>, <<"-">>}
           \/ /\ IsNumeral(elValue)
              /\ InRange(elValue, onlyNumberParams.minValue, onlyNumberParams.maxValue)

====
